---------------------------- MODULE Spec2Model ----------------------------
(* Model of the agent core of PacSum-ERP:                                  *)
(*   agents/core/agent_loader.py    AgentLoader   (profile store scan)     *)
(*   agents/core/agent_manager.py   AgentManager  (invocation, fan-out)    *)
(*   agents/core/communication.py   AgentRequest / AgentResponse           *)
(* Strings are sequences of tokens, so that formatting and concatenation   *)
(* are computed and not assumed.                                           *)
EXTENDS Integers, Sequences, FiniteSets, TLC

VARIABLES
    store,           \* the profile store on disk: directories and files
    ld_agents,       \* AgentLoader.agents          (filename -> path/phase/content)
    agent_registry,  \* AgentLoader.agent_registry  (list of records)
    ret,             \* what the last loader call returned or raised
    prev,            \* what load_agent returned or raised when it was also the call before
    scans,           \* number of load_all_agents calls made so far
    agent_content,   \* the profile text handed to extract_agent_metadata
    metadata,        \* what extract_agent_metadata returned or raised
    msg,             \* an AgentRequest or AgentResponse as constructed
    out,             \* what the last serialization of msg returned
    client,          \* AgentManager.client is not None (an API key was configured)
    agents,          \* AgentManager.agents (agent id -> profile text)
    pc,              \* where the manager's caller is: "idle" or inside an operation
    call,            \* the arguments of the operation in progress or last made
    idx,             \* position of the operation's for loop in its list of agents
    responses,       \* responses / results['supporting_responses'] of the operation
    combined_task,   \* combined_task of collaborative_task, once built
    attempts,        \* the invoke_agent calls of the operation, in call order
    generated,       \* the calls of client.messages.create of the operation, in call order
    result,          \* what the last manager operation returned or raised
    now,             \* the clock datetime.now() reads
    prev_out,        \* what the serialization of msg before the last returned
    requests,        \* CommunicationHandler.requests
    response_log,    \* CommunicationHandler.responses
    created,         \* the records the handler has created, in creation order
    answer           \* what the last handler call returned

loaderVars == <<store, ld_agents, agent_registry, ret, prev, scans>>

metadataVars == <<agent_content, metadata>>

messageVars == <<msg, out>>

managerVars ==
    <<client, agents, pc, call, idx, responses, combined_task, attempts, generated, result>>

handlerVars == <<now, prev_out, requests, response_log, created, answer>>

vars == <<loaderVars, metadataVars, messageVars, managerVars, handlerVars>>

--------------------------------------------------------------------------
(* Bounds                                                                  *)

\* at most this many files exist in the profile store
MaxFiles == 2
\* at most this many calls of load_all_agents on one loader
MaxScans == 2
\* a profile text has at most this many tokens
MaxText == 4
\* a list of agent ids given to the manager has at most this many ids
MaxAgents == 2
\* the clock is advanced at most this many times
MaxClock == 2
\* the handler creates at most this many records
MaxLog == 3

--------------------------------------------------------------------------
(* Python dict: insertion-ordered sequence of <<key, value>> pairs         *)

DictKeys(d) == [j \in 1..Len(d) |-> d[j][1]]

DictHas(d, k) == \E j \in 1..Len(d) : d[j][1] = k

DictGet(d, k) == d[CHOOSE j \in 1..Len(d) : d[j][1] = k][2]

\* d[k] = v : an existing key keeps its position, a new key goes last
DictSet(d, k, v) ==
    IF DictHas(d, k)
    THEN [j \in 1..Len(d) |-> IF d[j][1] = k THEN <<k, v>> ELSE d[j]]
    ELSE Append(d, <<k, v>>)

--------------------------------------------------------------------------
(* Helpers of the claims                                                   *)

\* the least and the greatest number of a set
FirstOf(S) == CHOOSE j \in S : \A k \in S : j <= k

LastOf(S) == CHOOSE j \in S : \A k \in S : k <= j

\* the elements of a sequence
SeqRange(s) == {s[k] : k \in DOMAIN s}

--------------------------------------------------------------------------
(* The profile store                                                       *)

\* the phase directories, in the order both loops of the loader name them
Phases == <<"leadership", "planning", "development", "qa", "deployment">>

PhaseSet == {Phases[j] : j \in 1..Len(Phases)}

\* the *.md file names that occur in the store
Names == {"x.md", "y.md"}

\* Path.stem
Stem(n) == CASE n = "x.md" -> "x" [] n = "y.md" -> "y"

\* str(profiles_dir / phase_dir / agent_filename)
PathOf(p, n) == <<"./agents/profiles", "/", p, "/", n>>

\* f.read() of a readable file: every file has its own text
ContentOf(p, n) == <<"profile of ", p, "/", n>>

\* a file is absent, readable ("ok"), or present but open()/read() raises ("bad")
FileStates == {"absent", "ok", "bad"}

Slots == PhaseSet \X Names

\* the file states of a store with at most MaxFiles files
FileMaps ==
    UNION {{[s \in Slots |-> IF s \in P THEN g[s] ELSE "absent"] :
                g \in [P -> {"ok", "bad"}]} :
           P \in {Q \in SUBSET Slots : Cardinality(Q) <= MaxFiles}}

\* a store: which phase directories exist and the state of every file. A
\* directory exists when it holds a file; one without *.md files is scanned
\* to no effect, like one that does not exist
Stores ==
    {[dirs |-> {s[1] : s \in {t \in Slots : f[t] # "absent"}}, files |-> f] : f \in FileMaps}

--------------------------------------------------------------------------
(* agent_loader.py                                                         *)

NoAgents == <<>>

\* load_agent, from phase directory number j on: the first directory in
\* which the path exists is opened; open()/read() raising leaves the loop
RECURSIVE load_agent_from(_, _, _, _)
load_agent_from(st, lda, agent_filename, j) ==
    IF j > Len(Phases)
    THEN [kind |-> "raise", exc |-> "FileNotFoundError",
          val |-> <<"Agent file not found: ", agent_filename>>, agents |-> lda]
    ELSE LET phase_dir == Phases[j]
             f == st.files[<<phase_dir, agent_filename>>]
         IN  IF f = "absent"
             THEN load_agent_from(st, lda, agent_filename, j + 1)
             ELSE IF f = "bad"
             THEN [kind |-> "raise", exc |-> "OSError",
                   val |-> <<"cannot read ">> \o PathOf(phase_dir, agent_filename),
                   agents |-> lda]
             ELSE [kind |-> "ok", exc |-> "",
                   val |-> ContentOf(phase_dir, agent_filename),
                   agents |-> DictSet(lda, agent_filename,
                                 [path |-> PathOf(phase_dir, agent_filename),
                                  phase |-> phase_dir,
                                  content |-> ContentOf(phase_dir, agent_filename)])]

\* a load_agent that searches the phase directories from the last to the first
RECURSIVE load_agent_backwards(_, _, _, _)
load_agent_backwards(st, lda, agent_filename, j) ==
    IF j < 1
    THEN [kind |-> "raise", exc |-> "FileNotFoundError",
          val |-> <<"Agent file not found: ", agent_filename>>, agents |-> lda]
    ELSE LET phase_dir == Phases[j]
             f == st.files[<<phase_dir, agent_filename>>]
         IN  IF f = "absent"
             THEN load_agent_backwards(st, lda, agent_filename, j - 1)
             ELSE IF f = "bad"
             THEN [kind |-> "raise", exc |-> "OSError",
                   val |-> <<"cannot read ">> \o PathOf(phase_dir, agent_filename),
                   agents |-> lda]
             ELSE [kind |-> "ok", exc |-> "",
                   val |-> ContentOf(phase_dir, agent_filename),
                   agents |-> DictSet(lda, agent_filename,
                                 [path |-> PathOf(phase_dir, agent_filename),
                                  phase |-> phase_dir,
                                  content |-> ContentOf(phase_dir, agent_filename)])]

load_agent_last_first(st, lda, agent_filename) ==
    load_agent_backwards(st, lda, agent_filename, Len(Phases))

\* AgentLoader.load_agent(agent_filename) on store st with self.agents = lda
load_agent(st, lda, agent_filename) == load_agent_from(st, lda, agent_filename, 1)

\* the orders in which glob('*.md') can yield the files of a directory
GlobOrders ==
    {o \in [1..Cardinality(Names) -> Names] : \A n \in Names : \E j \in DOMAIN o : o[j] = n}

\* phase_path.glob('*.md') in directory p, in the order o the file system gives
Glob(st, p, o) == SelectSeq(o, LAMBDA n : st.files[<<p, n>>] # "absent")

\* the <<phase_dir, agent_file.name>> pairs the two nested loops of
\* load_all_agents visit, from phase directory number j on
RECURSIVE ScanWork(_, _, _)
ScanWork(st, ords, j) ==
    IF j > Len(Phases) THEN <<>>
    ELSE LET phase_dir == Phases[j]
             here == IF phase_dir \in st.dirs
                     THEN [k \in 1..Len(Glob(st, phase_dir, ords[phase_dir])) |->
                              <<phase_dir, Glob(st, phase_dir, ords[phase_dir])[k]>>]
                     ELSE <<>>
         IN  here \o ScanWork(st, ords, j + 1)

\* the body of the inner loop of load_all_agents for every visited file:
\* acc = [agents (the local dict), lda (self.agents), reg (self.agent_registry)]
RECURSIVE ScanFiles(_, _, _, _)
ScanFiles(st, work, k, acc) ==
    IF k > Len(work) THEN acc
    ELSE LET phase_dir == work[k][1]
             name == work[k][2]
             agent_name == Stem(name)
             r == load_agent(st, acc.lda, name)
         IN  ScanFiles(st, work, k + 1,
                 IF r.kind = "ok"
                 THEN [agents |-> DictSet(acc.agents, agent_name, r.val),
                       lda |-> r.agents,
                       reg |-> Append(acc.reg,
                                  [id |-> agent_name, filename |-> name,
                                   phase |-> phase_dir,
                                   path |-> PathOf(phase_dir, name)])]
                 ELSE [acc EXCEPT !.lda = r.agents])

\* AgentLoader.load_all_agents(): agents starts empty, the registry does not
load_all_agents(st, lda, reg, ords) ==
    ScanFiles(st, ScanWork(st, ords, 1), 1, [agents |-> NoAgents, lda |-> lda, reg |-> reg])

\* a filter that keeps the records of the other phases
get_agent_by_other_phase(reg, phase) == SelectSeq(reg, LAMBDA agent : agent.phase # phase)

\* AgentLoader.get_agent_by_phase(phase)
get_agent_by_phase(reg, phase) == SelectSeq(reg, LAMBDA agent : agent.phase = phase)

\* one glob order per phase directory; a directory with fewer than two files
\* has one order only
ScanOrders(st) ==
    {ords \in [PhaseSet -> GlobOrders] :
        \A p \in PhaseSet :
            Cardinality({n \in Names : st.files[<<p, n>>] # "absent"}) < 2
                => ords[p] = CHOOSE o \in GlobOrders : TRUE}

NoRet == [op |-> "none"]

\* loader.load_all_agents()
LoadAllAgents ==
    /\ scans < MaxScans
    /\ \E ords \in ScanOrders(store) :
         LET r == load_all_agents(store, ld_agents, agent_registry, ords) IN
         /\ ld_agents' = r.lda
         /\ agent_registry' = r.reg
         /\ ret' = [op |-> "load_all_agents", kind |-> "ok", val |-> r.agents]
    /\ scans' = scans + 1
    /\ prev' = NoRet
    /\ UNCHANGED <<handlerVars, store, metadataVars, messageVars, managerVars>>

\* loader.load_agent(agent_filename)
LoadAgent ==
    /\ \E agent_filename \in Names :
         LET r == load_agent(store, ld_agents, agent_filename) IN
         /\ ld_agents' = r.agents
         /\ ret' = [op |-> "load_agent", arg |-> agent_filename,
                    kind |-> r.kind, exc |-> r.exc, val |-> r.val]
    /\ prev' = IF ret.op = "load_agent" THEN ret ELSE NoRet
    /\ UNCHANGED <<handlerVars, store, agent_registry, scans, metadataVars, messageVars, managerVars>>

\* loader.get_agent_by_phase(phase)
GetAgentByPhase ==
    /\ \E phase \in PhaseSet :
         ret' = [op |-> "get_agent_by_phase", arg |-> phase, kind |-> "ok",
                 val |-> get_agent_by_phase(agent_registry, phase)]
    /\ prev' = NoRet
    /\ UNCHANGED <<handlerVars, store, ld_agents, agent_registry, scans, metadataVars, messageVars,
                   managerVars>>

\* Option values: None, or the one value held
None == <<>>

Some(v) == <<v>>

\* the tokens of a profile text; "**" is the emphasis marker, " " is white
\* space, "v" any other text, "\n" the line break
Alphabet == {"Role:", "Tier:", "Specialty:", "PERSONALITY", "**", "v", " ", "\n"}

RECURSIVE SeqsUpTo(_, _)
SeqsUpTo(S, n) ==
    IF n = 0 THEN {<<>>}
    ELSE LET shorter == SeqsUpTo(S, n - 1)
         IN  shorter \cup {Append(t, c) : t \in {u \in shorter : Len(u) = n - 1}, c \in S}

AgentContents == SeqsUpTo(Alphabet, MaxText)

\* str.split(sep) for a one-token separator: the pieces between separators,
\* one more than there are separators
RECURSIVE SplitFrom(_, _, _, _)
SplitFrom(str, sep, k, piece) ==
    IF k > Len(str) THEN <<piece>>
    ELSE IF str[k] = sep THEN <<piece>> \o SplitFrom(str, sep, k + 1, <<>>)
    ELSE SplitFrom(str, sep, k + 1, Append(piece, str[k]))

Split(str, sep) == SplitFrom(str, sep, 1, <<>>)

\* sub in str
Contains(str, sub) == \E k \in DOMAIN str : str[k] = sub

\* str.strip()
RECURSIVE Strip(_)
Strip(str) ==
    IF str = <<>> THEN str
    ELSE IF Head(str) = " " THEN Strip(Tail(str))
    ELSE IF str[Len(str)] = " " THEN Strip(SubSeq(str, 1, Len(str) - 1))
    ELSE str

\* parts[-2]: IndexError when there are fewer than two parts
LastButOne(parts) ==
    IF Len(parts) >= 2
    THEN [kind |-> "ok", val |-> parts[Len(parts) - 1]]
    ELSE [kind |-> "raise", exc |-> "IndexError"]

EmptyMetadata ==
    [role |-> None, tier |-> None, specialty |-> None, personality |-> None,
     collaborates_with |-> <<>>]

\* metadata[field] = line.split('**')[-2]
SetField(acc, field, line) ==
    LET v == LastButOne(Split(line, "**")) IN
    IF v.kind = "ok"
    THEN [acc EXCEPT !.val = [acc.val EXCEPT ![field] = Some(v.val)]]
    ELSE [kind |-> "raise", exc |-> v.exc, val |-> acc.val]

\* 'Role:' in line and '**' in line
SetsField(line, label) == Contains(line, label) /\ Contains(line, "**")

\* the loop of extract_agent_metadata from line number k on
RECURSIVE ExtractFrom(_, _, _)
ExtractFrom(lines, k, acc) ==
    IF k > Len(lines) \/ acc.kind = "raise" THEN acc
    ELSE LET line == lines[k] IN
         ExtractFrom(lines, k + 1,
             IF SetsField(line, "Role:") THEN SetField(acc, "role", line)
             ELSE IF SetsField(line, "Tier:") THEN SetField(acc, "tier", line)
             ELSE IF SetsField(line, "Specialty:") THEN SetField(acc, "specialty", line)
             ELSE IF Contains(line, "PERSONALITY")
                  THEN IF k + 1 <= Len(lines)
                       THEN [acc EXCEPT !.val.personality = Some(Strip(lines[k + 1]))]
                       ELSE acc
             ELSE acc)

\* AgentLoader.extract_agent_metadata(agent_content)
extract_agent_metadata(content) ==
    ExtractFrom(Split(content, "\n"), 1, [kind |-> "ok", val |-> EmptyMetadata])

\* loader.extract_agent_metadata(agent_content)
ExtractAgentMetadata ==
    /\ metadata.op = "none"
    /\ metadata' = [op |-> "extract_agent_metadata"] @@ extract_agent_metadata(agent_content)
    /\ UNCHANGED <<handlerVars, loaderVars, agent_content, messageVars, managerVars>>

\* a loader on which nothing has been called
LoaderIdle ==
    /\ ld_agents = NoAgents
    /\ agent_registry = <<>>
    /\ ret = NoRet
    /\ prev = NoRet
    /\ scans = 0

EmptyStore == [dirs |-> {}, files |-> [s \in Slots |-> "absent"]]

MetadataIdle ==
    /\ agent_content = <<>>
    /\ metadata = NoRet

MessageIdle ==
    /\ msg = NoRet
    /\ out = NoRet

\* no CommunicationHandler in use, the clock at its start
HandlerIdle ==
    /\ now = 0
    /\ prev_out = [op |-> "none"]
    /\ requests = <<>>
    /\ response_log = <<>>
    /\ created = <<>>
    /\ answer = [op |-> "none"]

\* AgentManager.__init__ without an API key, nothing called
ManagerIdle ==
    /\ client = FALSE
    /\ agents = NoAgents
    /\ pc = "idle"
    /\ call = NoRet
    /\ idx = 0
    /\ responses = <<>>
    /\ combined_task = <<>>
    /\ attempts = <<>>
    /\ generated = <<>>
    /\ result = NoRet

\* AgentLoader(profiles_dir) on any store
InitLoader ==
    /\ store \in Stores
    /\ LoaderIdle
    /\ HandlerIdle
    /\ MetadataIdle
    /\ MessageIdle
    /\ ManagerIdle

\* a loader and any profile text
InitMetadata ==
    /\ store = EmptyStore
    /\ LoaderIdle
    /\ HandlerIdle
    /\ agent_content \in AgentContents
    /\ metadata = NoRet
    /\ MessageIdle
    /\ ManagerIdle

NextMetadata == ExtractAgentMetadata

SpecMetadata == InitMetadata /\ [][NextMetadata]_vars

NextLoader == LoadAllAgents \/ LoadAgent \/ GetAgentByPhase

SpecLoader == InitLoader /\ [][NextLoader]_vars

--------------------------------------------------------------------------
(* communication.py                                                        *)

\* class Priority(Enum): member -> value
PriorityValue(m) ==
    CASE m = "CRITICAL" -> "Critical" [] m = "HIGH" -> "High"
      [] m = "MEDIUM" -> "Medium" [] m = "LOW" -> "Low"

Priorities == {"CRITICAL", "HIGH", "MEDIUM", "LOW"}

\* class Status(Enum): member -> value
StatusValue(m) ==
    CASE m = "ACCEPTED" -> "Accepted" [] m = "REJECTED" -> "Rejected"
      [] m = "IN_PROGRESS" -> "In Progress" [] m = "COMPLETED" -> "Completed"
      [] m = "BLOCKED" -> "Blocked"

Statuses == {"ACCEPTED", "REJECTED", "IN_PROGRESS", "COMPLETED", "BLOCKED"}

\* the strings given for agent names and for free text: any string is
\* accepted, the empty one too
AgentNames == {<<"Devin">>, <<"Dana">>}

FreeText == {<<>>, <<"text">>}

\* Optional[str]
OptionalText == {None} \cup {Some(t) : t \in FreeText}

\* the AgentRequest dataclass
AgentRequests ==
    [type : {"request"}, from_agent : AgentNames, to_agent : AgentNames,
     priority : Priorities, context : FreeText, request : FreeText,
     deliverable : FreeText, timeline : FreeText]

\* the AgentResponse dataclass
AgentResponses ==
    [type : {"response"}, from_agent : AgentNames, to_agent : AgentNames,
     status : Statuses, estimated_completion : FreeText,
     questions : OptionalText, notes : OptionalText]

\* Python truth value of an Optional[str]: None and '' are false
Truthy(o) == o # None /\ o[1] # <<>>

\* AgentRequest.to_markdown
request_to_markdown(self) ==
    <<"=== AGENT REQUEST ===", "\n", "FROM: ">> \o self.from_agent
    \o <<"\n", "TO: ">> \o self.to_agent
    \o <<"\n", "PRIORITY: ", PriorityValue(self.priority)>>
    \o <<"\n", "CONTEXT: ">> \o self.context
    \o <<"\n", "REQUEST: ">> \o self.request
    \o <<"\n", "DELIVERABLE: ">> \o self.deliverable
    \o <<"\n", "TIMELINE: ">> \o self.timeline
    \o <<"\n", "=== END REQUEST ===">>

\* a to_markdown that tests the optional fields with "is not None"
response_to_markdown_not_none(self) ==
    <<"=== AGENT RESPONSE ===", "\n", "FROM: ">> \o self.from_agent
    \o <<"\n", "TO: ">> \o self.to_agent
    \o <<"\n", "STATUS: ", StatusValue(self.status)>>
    \o <<"\n", "ESTIMATED_COMPLETION: ">> \o self.estimated_completion
    \o (IF self.questions # None THEN <<"\n", "QUESTIONS: ">> \o self.questions[1] ELSE <<>>)
    \o (IF self.notes # None THEN <<"\n", "NOTES: ">> \o self.notes[1] ELSE <<>>)
    \o <<"\n", "=== END RESPONSE ===">>

\* AgentResponse.to_markdown
response_to_markdown(self) ==
    <<"=== AGENT RESPONSE ===", "\n", "FROM: ">> \o self.from_agent
    \o <<"\n", "TO: ">> \o self.to_agent
    \o <<"\n", "STATUS: ", StatusValue(self.status)>>
    \o <<"\n", "ESTIMATED_COMPLETION: ">> \o self.estimated_completion
    \o (IF Truthy(self.questions) THEN <<"\n", "QUESTIONS: ">> \o self.questions[1] ELSE <<>>)
    \o (IF Truthy(self.notes) THEN <<"\n", "NOTES: ">> \o self.notes[1] ELSE <<>>)
    \o <<"\n", "=== END RESPONSE ===">>

\* request.to_markdown()
RequestToMarkdown ==
    /\ msg.type = "request"
    /\ out = NoRet
    /\ out' = [op |-> "to_markdown", val |-> request_to_markdown(msg)]
    /\ UNCHANGED <<handlerVars, loaderVars, metadataVars, msg, managerVars>>

\* response.to_markdown()
ResponseToMarkdown ==
    /\ msg.type = "response"
    /\ out = NoRet
    /\ out' = [op |-> "to_markdown", val |-> response_to_markdown(msg)]
    /\ UNCHANGED <<handlerVars, loaderVars, metadataVars, msg, managerVars>>

\* any AgentRequest or AgentResponse, just constructed
InitMessage ==
    /\ store = EmptyStore
    /\ LoaderIdle
    /\ HandlerIdle
    /\ MetadataIdle
    /\ msg \in AgentRequests \cup AgentResponses
    /\ out = NoRet
    /\ ManagerIdle

NextMessage == RequestToMarkdown \/ ResponseToMarkdown

SpecMessage == InitMessage /\ [][NextMessage]_vars

\* datetime.isoformat() of the clock value t
IsoFormat(t) == <<"2026-11-05T00:00:0", ToString(t)>>

\* json.dumps of a str and of None
JsonString(str) == <<"\"">> \o str \o <<"\"">>

JsonOptional(o) == IF o = None THEN <<"null">> ELSE JsonString(o[1])

\* json.dumps(d, indent=2) of a dict d of <<key, dumped value>> pairs, from
\* entry k on
RECURSIVE JsonEntries(_, _)
JsonEntries(d, k) ==
    IF k > Len(d) THEN <<>>
    ELSE <<"\n  ", d[k][1], ": ">> \o d[k][2]
         \o (IF k < Len(d) THEN <<",">> ELSE <<>>)
         \o JsonEntries(d, k + 1)

JsonDumps(d) == <<"{">> \o JsonEntries(d, 1) \o <<"\n", "}">>

\* the dict AgentRequest.to_json dumps when datetime.now() gives t
request_dict(self, t) ==
    << <<"\"from_agent\"", JsonString(self.from_agent)>>,
       <<"\"to_agent\"", JsonString(self.to_agent)>>,
       <<"\"priority\"", JsonString(<<PriorityValue(self.priority)>>)>>,
       <<"\"context\"", JsonString(self.context)>>,
       <<"\"request\"", JsonString(self.request)>>,
       <<"\"deliverable\"", JsonString(self.deliverable)>>,
       <<"\"timeline\"", JsonString(self.timeline)>>,
       <<"\"created_at\"", JsonString(IsoFormat(t))>> >>

\* AgentRequest.to_json when datetime.now() gives t
request_to_json(self, t) == JsonDumps(request_dict(self, t))

\* a clock reading that is the time the record was constructed
ConstructionTime(t) == 0

\* datetime.now() inside to_json, called when the clock shows t
CallTime(t) == t

\* the dict AgentResponse.to_json dumps when datetime.now() gives t
response_dict(self, t) ==
    << <<"\"from_agent\"", JsonString(self.from_agent)>>,
       <<"\"to_agent\"", JsonString(self.to_agent)>>,
       <<"\"status\"", JsonString(<<StatusValue(self.status)>>)>>,
       <<"\"estimated_completion\"", JsonString(self.estimated_completion)>>,
       <<"\"questions\"", JsonOptional(self.questions)>>,
       <<"\"notes\"", JsonOptional(self.notes)>>,
       <<"\"created_at\"", JsonString(IsoFormat(t))>> >>

\* AgentResponse.to_json when datetime.now() gives t
response_to_json(self, t) == JsonDumps(response_dict(self, t))

\* time passes
Tick ==
    /\ now < MaxClock
    /\ now' = now + 1
    /\ UNCHANGED <<loaderVars, metadataVars, messageVars, managerVars,
                   prev_out, requests, response_log, created, answer>>

\* request.to_json()
RequestToJson ==
    /\ msg.type = "request"
    /\ out' = [op |-> "to_json", at |-> now, val |-> request_to_json(msg, CallTime(now))]
    /\ prev_out' = out
    /\ UNCHANGED <<loaderVars, metadataVars, msg, managerVars,
                   now, requests, response_log, created, answer>>

\* response.to_json()
ResponseToJson ==
    /\ msg.type = "response"
    /\ out' = [op |-> "to_json", at |-> now, val |-> response_to_json(msg, CallTime(now))]
    /\ prev_out' = out
    /\ UNCHANGED <<loaderVars, metadataVars, msg, managerVars,
                   now, requests, response_log, created, answer>>

NextJson == Tick \/ RequestToJson \/ ResponseToJson

\* any AgentRequest or AgentResponse, constructed when the clock shows 0
SpecJson == InitMessage /\ [][NextJson]_vars

\* the arguments of create_request and of create_response
CreateRequestArgs ==
    {r \in AgentRequests : /\ r.priority = "HIGH"
                           /\ r.context = <<>> /\ r.request = <<"text">>
                           /\ r.deliverable = <<>> /\ r.timeline = <<>>}

CreateResponseArgs ==
    {r \in AgentResponses : /\ r.from_agent = <<"Dana">> /\ r.to_agent = <<"Devin">>
                            /\ r.status \in {"ACCEPTED", "BLOCKED"}
                            /\ r.estimated_completion = <<>>
                            /\ r.questions = None /\ r.notes = None}

\* agent_id of the queries: the agents and an id of no record
QueryIds == AgentNames \cup {<<"Nobody">>}

\* a list that takes the new record at its head
list_prepend(log, rec) == <<rec>> \o log

\* list.append
list_append(log, rec) == Append(log, rec)

\* [req for req in self.requests if req.from_agent == agent_id]
get_requests_from_agent(reqs, agent_id) ==
    SelectSeq(reqs, LAMBDA req : req.from_agent = agent_id)

\* [req for req in self.requests if req.to_agent == agent_id]
get_requests_for_agent(reqs, agent_id) ==
    SelectSeq(reqs, LAMBDA req : req.to_agent = agent_id)

\* the log dict of export_communication_log when datetime.now() gives t
communication_log(reqs, resps, t) ==
    [requests |-> [k \in DOMAIN reqs |-> request_dict(reqs[k], t)],
     responses |-> [k \in DOMAIN resps |-> response_dict(resps[k], t)],
     exported_at |-> IsoFormat(t)]

\* handler.create_request(...)
CreateRequest ==
    /\ Len(created) < MaxLog
    /\ \E req \in CreateRequestArgs :
          /\ requests' = list_append(requests, req)
          /\ answer' = [op |-> "create_request", kind |-> "ok", val |-> req]
          /\ created' = Append(created, req)
    /\ UNCHANGED <<loaderVars, metadataVars, messageVars, managerVars,
                   now, prev_out, response_log>>

\* handler.create_response(...)
CreateResponse ==
    /\ Len(created) < MaxLog
    /\ \E resp \in CreateResponseArgs :
          /\ response_log' = list_append(response_log, resp)
          /\ answer' = [op |-> "create_response", kind |-> "ok", val |-> resp]
          /\ created' = Append(created, resp)
    /\ UNCHANGED <<loaderVars, metadataVars, messageVars, managerVars,
                   now, prev_out, requests>>

\* handler.get_requests_for_agent(agent_id)
GetRequestsForAgent ==
    /\ \E agent_id \in QueryIds :
          answer' = [op |-> "get_requests_for_agent", kind |-> "ok", id |-> agent_id,
                     val |-> get_requests_for_agent(requests, agent_id)]
    /\ UNCHANGED <<loaderVars, metadataVars, messageVars, managerVars,
                   now, prev_out, requests, response_log, created>>

\* handler.get_requests_from_agent(agent_id)
GetRequestsFromAgent ==
    /\ \E agent_id \in QueryIds :
          answer' = [op |-> "get_requests_from_agent", kind |-> "ok", id |-> agent_id,
                     val |-> get_requests_from_agent(requests, agent_id)]
    /\ UNCHANGED <<loaderVars, metadataVars, messageVars, managerVars,
                   now, prev_out, requests, response_log, created>>

\* handler.export_communication_log(filepath): the file is written, or open()
\* raises
ExportCommunicationLog ==
    /\ \E written \in BOOLEAN :
          answer' = IF written
                    THEN [op |-> "export_communication_log", kind |-> "ok",
                          val |-> communication_log(requests, response_log, now)]
                    ELSE [op |-> "export_communication_log", kind |-> "raise",
                          exc |-> "OSError"]
    /\ UNCHANGED <<loaderVars, metadataVars, messageVars, managerVars,
                   now, prev_out, requests, response_log, created>>

\* CommunicationHandler(): both logs empty
InitHandler ==
    /\ LoaderIdle
    /\ store = EmptyStore
    /\ MetadataIdle
    /\ MessageIdle
    /\ ManagerIdle
    /\ HandlerIdle

NextHandler ==
    \/ Tick
    \/ CreateRequest
    \/ CreateResponse
    \/ GetRequestsForAgent
    \/ GetRequestsFromAgent
    \/ ExportCommunicationLog

SpecHandler == InitHandler /\ [][NextHandler]_vars

--------------------------------------------------------------------------
(* agent_manager.py                                                        *)

\* the agent ids a caller names: the stems of the file names, loaded or not
AgentIds == {Stem(n) : n \in Names}

\* the lists of agent ids a caller gives, an id possibly more than once
AgentLists == SeqsUpTo(AgentIds, MaxAgents)

\* the task a caller gives
Tasks == {<<"design the schema">>}

\* the texts client.messages.create can return as response.content[0].text
GenTexts == {<<"text one">>, <<"text two">>}

\* client.messages.create returns a message with a text or raises;
\* response.content[0] of a message without content raises IndexError
GenOutcomes ==
    {[kind |-> "ok", exc |-> "", val |-> t] : t \in GenTexts}
    \cup {[kind |-> "raise", exc |-> "APIError", val |-> <<"Connection error.">>],
          [kind |-> "raise", exc |-> "IndexError", val |-> <<"list index out of range">>]}

\* the stores the manager is started on: readable profiles in leadership/
ManagerStores ==
    {st \in Stores :
        \A sl \in Slots : st.files[sl] # "absent" => (sl[1] = "leadership" /\ st.files[sl] = "ok")}

\* system_prompt of invoke_agent
SystemPrompt(agent_profile) ==
    <<"You are an AI agent with the following profile:\n\n">> \o agent_profile
    \o <<"\n\nFollow the instructions and personality defined in your profile. Maintain consistency with your role, expertise, and communication style.">>

NoApiKey ==
    [kind |-> "raise", exc |-> "ValueError",
     val |-> <<"Claude API key not configured. Set ANTHROPIC_API_KEY environment variable.">>]

AgentNotFound(agent_id) ==
    [kind |-> "raise", exc |-> "ValueError", val |-> <<"Agent not found: ", agent_id>>]

\* an invoke_agent that looks the agent up before it tests the client
invoke_agent_lookup_first(cl, ags, agent_id) ==
    IF ~DictHas(ags, agent_id) THEN AgentNotFound(agent_id)
    ELSE IF ~cl THEN NoApiKey
    ELSE [kind |-> "ok", exc |-> "", val |-> SystemPrompt(DictGet(ags, agent_id))]

\* invoke_agent up to the call of client.messages.create: it raises, or it
\* has the system prompt to call it with
invoke_agent_checks(cl, ags, agent_id) ==
    IF ~cl THEN NoApiKey
    ELSE IF ~DictHas(ags, agent_id) THEN AgentNotFound(agent_id)
    ELSE [kind |-> "ok", exc |-> "", val |-> SystemPrompt(DictGet(ags, agent_id))]

\* an except clause that catches the API's errors only
CaughtApiErrorOnly(e) == e.exc = "APIError"

\* except Exception: every exception invoke_agent can raise is one
Caught(e) == e.exc \in {"ValueError", "APIError", "IndexError"}

\* f"Error: {str(e)}"
ErrorString(e) == <<"Error: ">> \o e.val

\* "\n\n".join(...) of the supporting_context, from entry k of the dict on
RECURSIVE JoinInputs(_, _)
JoinInputs(d, k) ==
    IF k > Len(d) THEN <<>>
    ELSE (IF k > 1 THEN <<"\n\n">> ELSE <<>>)
         \o <<"Input from ", d[k][1], ":\n">> \o d[k][2]
         \o JoinInputs(d, k + 1)

\* a supporting_context without the responses
supporting_context_ids_only(d) == [k \in 1..Len(d) |-> d[k][1]]

supporting_context(d) == JoinInputs(d, 1)

\* combined_task of collaborative_task
CombinedTask(task, d) ==
    task \o <<"\n\nSupporting agent inputs:\n">> \o supporting_context(d)
    \o <<"\n\nPlease provide your response as the primary agent, integrating the supporting input.">>

\* an invoke_agent call that raised before client.messages.create
AttemptRaised(site, agent_id, task, e) ==
    [site |-> site, agent_id |-> agent_id, task |-> task,
     kind |-> "raise", exc |-> e.exc, val |-> e.val]

\* an invoke_agent call waiting for client.messages.create
AttemptPending(site, agent_id, task) ==
    [site |-> site, agent_id |-> agent_id, task |-> task,
     kind |-> "pending", exc |-> "", val |-> <<>>]

\* a call of client.messages.create that has not returned
GeneratePending(system_prompt, task) ==
    [system |-> system_prompt, user |-> task, kind |-> "pending"]

\* the last entry of a log gets the outcome o
Finish(log, o) ==
    [log EXCEPT ![Len(log)] = [f \in DOMAIN log[Len(log)] |->
        IF f \in DOMAIN o THEN o[f] ELSE log[Len(log)][f]]]

\* manager.load_agents()
LoadAgents ==
    /\ pc = "idle"
    /\ scans < MaxScans
    /\ \E ords \in ScanOrders(store) :
         LET r == load_all_agents(store, ld_agents, agent_registry, ords) IN
         /\ ld_agents' = r.lda
         /\ agent_registry' = r.reg
         /\ agents' = r.agents
    /\ scans' = scans + 1
    /\ call' = [op |-> "load_agents"]
    /\ result' = [op |-> "load_agents", kind |-> "ok"]
    /\ idx' = 0
    /\ responses' = <<>>
    /\ combined_task' = <<>>
    /\ attempts' = <<>>
    /\ generated' = <<>>
    /\ UNCHANGED <<handlerVars, store, ret, prev, metadataVars, messageVars, client, pc>>

\* manager.invoke_agent(agent_id, task) called directly, up to the API call
InvokeAgent ==
    /\ pc = "idle"
    /\ \E agent_id \in AgentIds, task \in Tasks :
         LET c == invoke_agent_checks(client, agents, agent_id) IN
         /\ call' = [op |-> "invoke_agent", agent_id |-> agent_id, task |-> task]
         /\ IF c.kind = "raise"
            THEN /\ attempts' = <<AttemptRaised("direct", agent_id, task, c)>>
                 /\ generated' = <<>>
                 /\ result' = [op |-> "invoke_agent", kind |-> "raise",
                               exc |-> c.exc, val |-> c.val]
                 /\ pc' = "idle"
            ELSE /\ attempts' = <<AttemptPending("direct", agent_id, task)>>
                 /\ generated' = <<GeneratePending(c.val, task)>>
                 /\ result' = NoRet
                 /\ pc' = "invoke_gen"
    /\ idx' = 0
    /\ responses' = <<>>
    /\ combined_task' = <<>>
    /\ UNCHANGED <<handlerVars, loaderVars, metadataVars, messageVars, client, agents>>

\* client.messages.create returns to a direct invoke_agent, which returns
\* the text or lets the exception pass
InvokeAgentReturns ==
    /\ pc = "invoke_gen"
    /\ \E o \in GenOutcomes :
         /\ attempts' = Finish(attempts, o)
         /\ generated' = Finish(generated, [kind |-> o.kind])
         /\ result' = [op |-> "invoke_agent", kind |-> o.kind, exc |-> o.exc, val |-> o.val]
    /\ pc' = "idle"
    /\ UNCHANGED <<handlerVars, loaderVars, metadataVars, messageVars, client, agents, call, idx,
                   responses, combined_task>>

\* an exception leaves the operation in progress and reaches its caller
Propagate(e) ==
    /\ result' = [op |-> call.op, kind |-> "raise", exc |-> e.exc, val |-> e.val]
    /\ pc' = "idle"
    /\ UNCHANGED <<idx, responses>>

\* one pass of "for agent_id in ...: try: invoke_agent(agent_id, task)" up to
\* the API call; an exception of the checks is handled by the except clause
LoopInvoke(site, gen_pc) ==
    LET agent_id == call.agents[idx]
        c == invoke_agent_checks(client, agents, agent_id)
    IN  IF c.kind = "raise"
        THEN /\ attempts' = Append(attempts, AttemptRaised(site, agent_id, call.task, c))
             /\ generated' = generated
             /\ IF Caught(c)
                THEN /\ responses' = DictSet(responses, agent_id, ErrorString(c))
                     /\ idx' = idx + 1
                     /\ UNCHANGED <<pc, result>>
                ELSE Propagate(c)
        ELSE /\ attempts' = Append(attempts, AttemptPending(site, agent_id, call.task))
             /\ generated' = Append(generated, GeneratePending(c.val, call.task))
             /\ pc' = gen_pc
             /\ UNCHANGED <<idx, responses, result>>

\* a loop that takes the same agent id again when client.messages.create
\* raised
LoopGenerateRetries(loop_pc) ==
    \E o \in GenOutcomes :
        /\ attempts' = Finish(attempts, o)
        /\ generated' = Finish(generated, [kind |-> o.kind])
        /\ pc' = loop_pc
        /\ UNCHANGED result
        /\ IF o.kind = "ok"
           THEN /\ responses' = DictSet(responses, call.agents[idx], o.val)
                /\ idx' = idx + 1
           ELSE UNCHANGED <<idx, responses>>

\* client.messages.create returns inside the loop: the text is stored under
\* the agent id, an exception is handled by the except clause
LoopGenerateReturns(loop_pc) ==
    \E o \in GenOutcomes :
        /\ attempts' = Finish(attempts, o)
        /\ generated' = Finish(generated, [kind |-> o.kind])
        /\ IF o.kind = "ok" \/ Caught(o)
           THEN /\ responses' = DictSet(responses, call.agents[idx],
                                        IF o.kind = "ok" THEN o.val ELSE ErrorString(o))
                /\ idx' = idx + 1
                /\ pc' = loop_pc
                /\ UNCHANGED result
           ELSE Propagate(o)

\* a for loop that ends after its first pass
LoopDoneAfterFirst == idx > 1 \/ idx > Len(call.agents)

\* "for agent_id in ..." has no agent id left
LoopDone == idx > Len(call.agents)

\* manager.invoke_multiple_agents(agents, task) is called
InvokeMultipleAgents ==
    /\ pc = "idle"
    /\ \E list \in AgentLists, task \in Tasks :
         call' = [op |-> "invoke_multiple_agents", agents |-> list, task |-> task]
    /\ responses' = <<>>
    /\ idx' = 1
    /\ pc' = "many_loop"
    /\ combined_task' = <<>>
    /\ attempts' = <<>>
    /\ generated' = <<>>
    /\ result' = NoRet
    /\ UNCHANGED <<handlerVars, loaderVars, metadataVars, messageVars, client, agents>>

\* the loop of invoke_multiple_agents takes the next agent id
ManyIterate ==
    /\ pc = "many_loop"
    /\ ~LoopDone
    /\ LoopInvoke("batch", "many_gen")
    /\ UNCHANGED <<handlerVars, loaderVars, metadataVars, messageVars, client, agents, call, combined_task>>

ManyGenerateReturns ==
    /\ pc = "many_gen"
    /\ LoopGenerateReturns("many_loop")
    /\ UNCHANGED <<handlerVars, loaderVars, metadataVars, messageVars, client, agents, call, combined_task>>

\* the loop of invoke_multiple_agents is over: return responses
ManyReturn ==
    /\ pc = "many_loop"
    /\ LoopDone
    /\ result' = [op |-> "invoke_multiple_agents", kind |-> "ok", val |-> responses]
    /\ pc' = "idle"
    /\ UNCHANGED <<handlerVars, loaderVars, metadataVars, messageVars, client, agents, call, idx,
                   responses, combined_task, attempts, generated>>

\* manager.collaborative_task(primary_agent, supporting_agents, task) is called
CollaborativeTask ==
    /\ pc = "idle"
    /\ \E primary_agent \in AgentIds, list \in AgentLists, task \in Tasks :
         call' = [op |-> "collaborative_task", primary_agent |-> primary_agent,
                  agents |-> list, task |-> task]
    /\ responses' = <<>>
    /\ idx' = 1
    /\ pc' = "collab_loop"
    /\ combined_task' = <<>>
    /\ attempts' = <<>>
    /\ generated' = <<>>
    /\ result' = NoRet
    /\ UNCHANGED <<handlerVars, loaderVars, metadataVars, messageVars, client, agents>>

\* the supporting loop of collaborative_task takes the next agent id
CollabIterate ==
    /\ pc = "collab_loop"
    /\ ~LoopDone
    /\ LoopInvoke("supporting", "collab_gen")
    /\ UNCHANGED <<handlerVars, loaderVars, metadataVars, messageVars, client, agents, call, combined_task>>

CollabGenerateReturns ==
    /\ pc = "collab_gen"
    /\ LoopGenerateReturns("collab_loop")
    /\ UNCHANGED <<handlerVars, loaderVars, metadataVars, messageVars, client, agents, call, combined_task>>

\* the results dict collaborative_task returns
Results(primary_response) ==
    [op |-> "collaborative_task", kind |-> "ok",
     val |-> [primary_agent |-> call.primary_agent, supporting_agents |-> call.agents,
              task |-> call.task, primary_response |-> primary_response,
              supporting_responses |-> responses]]

\* the supporting loop is over: build combined_task and invoke the primary
\* agent with it, up to the API call
CollabPrimary ==
    /\ pc = "collab_loop"
    /\ LoopDone
    /\ LET combined == CombinedTask(call.task, responses)
           c == invoke_agent_checks(client, agents, call.primary_agent)
       IN  /\ combined_task' = combined
           /\ IF c.kind = "raise"
              THEN /\ attempts' = Append(attempts,
                          AttemptRaised("primary", call.primary_agent, combined, c))
                   /\ generated' = generated
                   /\ IF Caught(c)
                      THEN /\ result' = Results(ErrorString(c))
                           /\ pc' = "idle"
                           /\ UNCHANGED <<idx, responses>>
                      ELSE Propagate(c)
              ELSE /\ attempts' = Append(attempts,
                          AttemptPending("primary", call.primary_agent, combined))
                   /\ generated' = Append(generated, GeneratePending(c.val, combined))
                   /\ pc' = "collab_pgen"
                   /\ UNCHANGED <<idx, responses, result>>
    /\ UNCHANGED <<handlerVars, loaderVars, metadataVars, messageVars, client, agents, call>>

\* client.messages.create returns to the primary invocation: return results
CollabPrimaryReturns ==
    /\ pc = "collab_pgen"
    /\ \E o \in GenOutcomes :
         /\ attempts' = Finish(attempts, o)
         /\ generated' = Finish(generated, [kind |-> o.kind])
         /\ IF o.kind = "ok" \/ Caught(o)
            THEN /\ result' = Results(IF o.kind = "ok" THEN o.val ELSE ErrorString(o))
                 /\ pc' = "idle"
                 /\ UNCHANGED <<idx, responses>>
            ELSE Propagate(o)
    /\ UNCHANGED <<handlerVars, loaderVars, metadataVars, messageVars, client, agents, call, combined_task>>

\* AgentManager(profiles_dir, api_key) on a store, with or without an API key
InitManager ==
    /\ store \in ManagerStores
    /\ LoaderIdle
    /\ HandlerIdle
    /\ MetadataIdle
    /\ MessageIdle
    /\ client \in BOOLEAN
    /\ agents = NoAgents
    /\ pc = "idle"
    /\ call = NoRet
    /\ idx = 0
    /\ responses = <<>>
    /\ combined_task = <<>>
    /\ attempts = <<>>
    /\ generated = <<>>
    /\ result = NoRet

NextManager ==
    \/ LoadAgents
    \/ InvokeAgent
    \/ InvokeAgentReturns
    \/ InvokeMultipleAgents
    \/ ManyIterate
    \/ ManyGenerateReturns
    \/ ManyReturn
    \/ CollaborativeTask
    \/ CollabIterate
    \/ CollabGenerateReturns
    \/ CollabPrimary
    \/ CollabPrimaryReturns

SpecManager == InitManager /\ [][NextManager]_vars

--------------------------------------------------------------------------
(* Claims about the manager, checked under SpecManager                     *)

\* the positions of the invoke_agent calls made from a call site
AttemptsAt(site) == {k \in DOMAIN attempts : attempts[k].site = site}

\* the string a finished invoke_agent call leaves in a result: the generated
\* text, or the description of the error
OutcomeString(a) == IF a.kind = "ok" THEN a.val ELSE <<"Error: ">> \o a.val

\* the last invoke_agent call made from a call site for an agent id
LastAttempt(site, agent_id) ==
    attempts[LastOf({k \in AttemptsAt(site) : attempts[k].agent_id = agent_id})]

\* every id of the list was passed to invoke_agent, in list order, and every
\* call ended; it returned text only with an API key and a loaded agent
AllAttempted(site) ==
    /\ Cardinality(AttemptsAt(site)) = Len(call.agents)
    /\ \A k \in DOMAIN call.agents :
          /\ attempts[k].site = site
          /\ attempts[k].agent_id = call.agents[k]
          /\ attempts[k].kind \in {"ok", "raise"}
          /\ attempts[k].kind = "ok" => (client /\ DictHas(agents, call.agents[k]))
          /\ (~client \/ ~DictHas(agents, call.agents[k])) => attempts[k].exc = "ValueError"

\* the map d has exactly the ids of the list as keys, each with the string
\* of the last call made for it
MapOfOutcomes(d, site) ==
    /\ SeqRange(DictKeys(d)) = SeqRange(call.agents)
    /\ Len(d) = Cardinality(SeqRange(call.agents))
    /\ \A id \in SeqRange(call.agents) : DictGet(d, id) = OutcomeString(LastAttempt(site, id))

\* C1: invoke_multiple_agents never raises; when it returns, every id of the
\* list has been invoked in list order whatever the calls before it did,
\* and the returned map has an entry for every id: the generated text of a
\* call that succeeded, "Error: ..." for one that failed.
C1_InvokeManyNeverRaises ==
    result.op = "invoke_multiple_agents" =>
        /\ result.kind = "ok"
        /\ AllAttempted("batch")
        /\ MapOfOutcomes(result.val, "batch")

\* C1 witness: invoke_multiple_agents returned after an unknown id failed and
\* the agent after it produced text
C1_Witness ==
    /\ result.op = "invoke_multiple_agents"
    /\ Len(call.agents) = 2
    /\ client
    /\ ~DictHas(agents, call.agents[1])
    /\ attempts[1].kind = "raise"
    /\ attempts[2].kind = "ok"
    /\ DictGet(result.val, call.agents[2]) \in GenTexts

\* C2: in collaborative_task the primary agent is invoked at most once while
\* the operation runs and exactly once when it has returned, and only after
\* every supporting agent of the list has been invoked, in order, and its
\* call has ended, with text or with an error.
C2_PrimaryOnceAfterSupporting ==
    call.op = "collaborative_task" =>
        /\ Cardinality(AttemptsAt("primary")) <= 1
        /\ \A k \in AttemptsAt("primary") :
              /\ k = Len(call.agents) + 1
              /\ attempts[k].agent_id = call.primary_agent
              /\ AllAttempted("supporting")
        /\ result.op = "collaborative_task" =>
              /\ result.kind = "ok"
              /\ Cardinality(AttemptsAt("primary")) = 1

\* C2 witness: collaborative_task returned, a supporting agent had failed, a
\* later one and the primary agent produced text
C2_Witness ==
    /\ result.op = "collaborative_task"
    /\ Len(call.agents) = 2
    /\ attempts[1].kind = "raise"
    /\ attempts[2].kind = "ok"
    /\ attempts[3].site = "primary"
    /\ attempts[3].kind = "ok"

\* the supporting agent ids in the order of their first invocation
FirstAttemptOrder ==
    LET ids == {attempts[k].agent_id : k \in AttemptsAt("supporting")}
        first(id) == FirstOf({k \in AttemptsAt("supporting") : attempts[k].agent_id = id})
    IN  CHOOSE o \in [1..Cardinality(ids) -> ids] :
            \A j, k \in DOMAIN o : j < k => first(o[j]) < first(o[k])

\* the context block: one labelled entry per supporting agent
RECURSIVE ExpectedContext(_, _)
ExpectedContext(o, k) ==
    IF k > Len(o) THEN <<>>
    ELSE (IF k = 1 THEN <<>> ELSE <<"\n\n">>)
         \o <<"Input from ", o[k], ":\n">>
         \o OutcomeString(LastAttempt("supporting", o[k]))
         \o ExpectedContext(o, k + 1)

ExpectedCombinedTask ==
    call.task \o <<"\n\nSupporting agent inputs:\n">>
    \o ExpectedContext(FirstAttemptOrder, 1)
    \o <<"\n\nPlease provide your response as the primary agent, integrating the supporting input.">>

\* C3: the task passed to the primary agent's invocation, and to the API when
\* that invocation reaches it, is the original task, then the context block
\* holding for every supporting agent its text or error string labelled by
\* its id (an id listed more than once has one entry, at its first place,
\* with the string of its last call), then the integration instruction; the
\* returned record has the task, these same strings as supporting responses
\* and the primary agent's text or error string.
C3_CombinedTaskCarriesResponses ==
    call.op = "collaborative_task" =>
        /\ \A k \in AttemptsAt("primary") :
              /\ attempts[k].task = ExpectedCombinedTask
              /\ attempts[k].exc # "ValueError" =>
                    generated[Len(generated)].user = ExpectedCombinedTask
        /\ result.op = "collaborative_task" =>
              /\ result.val.task = call.task
              /\ MapOfOutcomes(result.val.supporting_responses, "supporting")
              /\ DictKeys(result.val.supporting_responses) = FirstAttemptOrder
              /\ result.val.primary_response
                    = OutcomeString(LastAttempt("primary", call.primary_agent))

\* C3 witness: collaborative_task returned after one supporting agent
\* produced text and another failed, a loaded primary agent having been sent
\* the combined task
C3_Witness ==
    /\ result.op = "collaborative_task"
    /\ Len(call.agents) = 2
    /\ call.agents[1] # call.agents[2]
    /\ attempts[1].kind = "ok"
    /\ attempts[2].kind = "raise"
    /\ attempts[3].kind = "ok"
    /\ Contains(generated[Len(generated)].user, "Error: ")
    /\ \E t \in GenTexts : Contains(generated[Len(generated)].user, t[1])

\* C4 (as claimed): invoke_agent raises "Agent not found" for every id that
\* is not in the loaded agents and raises the API key error whenever no
\* client is configured, both without a call of the API.
C4_NotFoundAndConfigurationError ==
    result.op = "invoke_agent" =>
        /\ ~DictHas(agents, call.agent_id) =>
              /\ result.kind = "raise"
              /\ result.val = AgentNotFound(call.agent_id).val
              /\ generated = <<>>
        /\ ~client =>
              /\ result.kind = "raise"
              /\ result.val = NoApiKey.val
              /\ generated = <<>>

\* C4 (amended): invoke_agent raises the API key error whenever no client is
\* configured, whether the id is known or not, and raises "Agent not found"
\* for every id that is not in the loaded agents when a client is configured;
\* both reach the caller and the API is called in neither case.
C4_ConfigurationErrorFirst ==
    call.op = "invoke_agent" =>
        /\ generated # <<>> => (client /\ DictHas(agents, call.agent_id))
        /\ result.op = "invoke_agent" =>
              /\ ~client =>
                    /\ result.kind = "raise"
                    /\ result.exc = "ValueError"
                    /\ result.val = NoApiKey.val
                    /\ generated = <<>>
              /\ (client /\ ~DictHas(agents, call.agent_id)) =>
                    /\ result.kind = "raise"
                    /\ result.exc = "ValueError"
                    /\ result.val = AgentNotFound(call.agent_id).val
                    /\ generated = <<>>

\* C4 witness: with agents loaded and a client configured, invoke_agent of an
\* id that is not loaded raised
C4_Witness ==
    /\ result.op = "invoke_agent"
    /\ client
    /\ agents # NoAgents
    /\ ~DictHas(agents, call.agent_id)
    /\ result.kind = "raise"
    /\ generated = <<>>

--------------------------------------------------------------------------
(* Claims about the loader, checked under SpecLoader                       *)

\* the files of existing phase directories that can be read
ReadableFiles(st) == {s \in Slots : st.files[s] = "ok" /\ s[1] \in st.dirs}

\* the numbers of the phase directories that contain file n
Containing(st, n) == {j \in 1..Len(Phases) : st.files[<<Phases[j], n>>] # "absent"}

\* C5 (as claimed): after every load_all_agents, the first and any later one,
\* the registry has as many records as there are readable profile files in
\* the existing phase directories.
C5_RegistrySizeIsReadableCount ==
    ret.op = "load_all_agents" =>
        Len(agent_registry) = Cardinality(ReadableFiles(store))

\* C6 (as claimed): after load_all_agents, a file name that two phase
\* directories hold readable has exactly one record, and that record's
\* phase, path and text are those of the file of the later phase.
C6_LastPhaseWins ==
    ret.op = "load_all_agents" =>
        \A n \in Names :
            LET holders == {j \in Containing(store, n) :
                                store.files[<<Phases[j], n>>] = "ok"}
                recs == {k \in DOMAIN agent_registry : agent_registry[k].id = Stem(n)}
            IN  Cardinality(holders) >= 2 =>
                    /\ Cardinality(recs) = 1
                    /\ \A k \in recs :
                          /\ agent_registry[k].phase = Phases[LastOf(holders)]
                          /\ agent_registry[k].path = PathOf(Phases[LastOf(holders)], n)
                    /\ DictHas(ret.val, Stem(n))
                    /\ DictGet(ret.val, Stem(n)) = ContentOf(Phases[LastOf(holders)], n)

\* whether s occurs in t as a subsequence, from position k of s and j of t on
RECURSIVE EmbedsFrom(_, _, _, _)
EmbedsFrom(s, t, k, j) ==
    IF k > Len(s) THEN TRUE
    ELSE IF j > Len(t) THEN FALSE
    ELSE IF s[k] = t[j] THEN EmbedsFrom(s, t, k + 1, j + 1)
    ELSE EmbedsFrom(s, t, k, j + 1)

RECURSIVE SumLen(_, _)
SumLen(reg, j) ==
    IF j > Len(Phases) THEN 0
    ELSE Len(get_agent_by_phase(reg, Phases[j])) + SumLen(reg, j + 1)

\* C7: get_agent_by_phase partitions the registry: every result holds only
\* records of its phase, every record of the registry is in the result of its
\* own phase and in no other, the five results have as many records as the
\* registry, each result lists its records in registry order, and a call
\* returns that result.
C7_FilterPartitions ==
    /\ \A p \in PhaseSet :
          /\ \A r \in SeqRange(get_agent_by_phase(agent_registry, p)) : r.phase = p
          /\ EmbedsFrom(get_agent_by_phase(agent_registry, p), agent_registry, 1, 1)
    /\ \A k \in DOMAIN agent_registry :
          \A p \in PhaseSet :
              agent_registry[k] \in SeqRange(get_agent_by_phase(agent_registry, p))
                  <=> p = agent_registry[k].phase
    /\ SumLen(agent_registry, 1) = Len(agent_registry)
    /\ ret.op = "get_agent_by_phase" =>
          /\ \A r \in SeqRange(ret.val) : r.phase = ret.arg
          /\ Len(ret.val) = Cardinality({k \in DOMAIN agent_registry :
                                            agent_registry[k].phase = ret.arg})
          /\ EmbedsFrom(ret.val, agent_registry, 1, 1)

\* C7 witness: a call returned some but not all records of a scanned registry
C7_Witness ==
    /\ ret.op = "get_agent_by_phase"
    /\ Len(ret.val) >= 1
    /\ Len(ret.val) < Len(agent_registry)
    /\ \E k \in DOMAIN agent_registry : agent_registry[k].phase # ret.arg

\* C8 (as claimed): load_agent returns the text of the first phase directory
\* that contains the file name, raises FileNotFoundError exactly when no
\* phase directory contains it, and two successive calls with the same name
\* return identical text.
C8_FirstMatchTextOrNotFound ==
    ret.op = "load_agent" =>
        LET c == Containing(store, ret.arg) IN
        /\ c # {} => /\ ret.kind = "ok"
                     /\ ret.val = ContentOf(Phases[FirstOf(c)], ret.arg)
        /\ (ret.kind = "raise" /\ ret.exc = "FileNotFoundError") <=> c = {}
        /\ (prev.op = "load_agent" /\ prev.arg = ret.arg) =>
               (prev.kind = ret.kind /\ prev.val = ret.val)

\* C8 (amended): load_agent opens the file of the first phase directory that
\* contains the name; it returns that file's text when the file can be read
\* and raises the read error, without trying later directories, when it
\* cannot; it raises FileNotFoundError exactly when no phase directory
\* contains the name; two successive calls with the same name end the same
\* way, with identical text.
C8_FirstMatchReadable ==
    ret.op = "load_agent" =>
        LET c == Containing(store, ret.arg) IN
        /\ (c # {} /\ store.files[<<Phases[FirstOf(c)], ret.arg>>] = "ok") =>
               /\ ret.kind = "ok"
               /\ ret.val = ContentOf(Phases[FirstOf(c)], ret.arg)
        /\ (c # {} /\ store.files[<<Phases[FirstOf(c)], ret.arg>>] = "bad") =>
               /\ ret.kind = "raise"
               /\ ret.exc = "OSError"
        /\ (ret.kind = "raise" /\ ret.exc = "FileNotFoundError") <=> c = {}
        /\ (prev.op = "load_agent" /\ prev.arg = ret.arg) =>
               (prev.kind = ret.kind /\ prev.exc = ret.exc /\ prev.val = ret.val)

\* C8 witness: the second of two load_agent calls for a name that two phase
\* directories contain returned text
C8_Witness ==
    /\ ret.op = "load_agent"
    /\ ret.kind = "ok"
    /\ prev.op = "load_agent"
    /\ prev.arg = ret.arg
    /\ Cardinality(Containing(store, ret.arg)) >= 2

--------------------------------------------------------------------------
(* Claims about extract_agent_metadata, checked under SpecMetadata         *)

\* the number of emphasis markers of a line
Markers(line) == Cardinality({k \in DOMAIN line : line[k] = "**"})

Labels == <<"Role:", "Tier:", "Specialty:">>

Fields == <<"role", "tier", "specialty">>

\* C9 (as claimed): extract_agent_metadata returns a metadata record for every
\* text, and a field whose label occurs only on lines with fewer than two
\* emphasis markers is left absent.
C9_TotalAndMalformedAbsent ==
    metadata.op = "extract_agent_metadata" =>
        /\ metadata.kind = "ok"
        /\ \A f \in DOMAIN Fields :
              (\A line \in SeqRange(Split(agent_content, "\n")) :
                  Contains(line, Labels[f]) => Markers(line) < 2)
                  => metadata.val[Fields[f]] = None

--------------------------------------------------------------------------
(* Claims about the message renderings, checked under SpecMessage          *)

RequestLabels ==
    <<"FROM: ", "TO: ", "PRIORITY: ", "CONTEXT: ", "REQUEST: ", "DELIVERABLE: ", "TIMELINE: ">>

ResponseLabels ==
    <<"FROM: ", "TO: ", "STATUS: ", "ESTIMATED_COMPLETION: ", "QUESTIONS: ", "NOTES: ">>

AllLabels == SeqRange(RequestLabels) \cup SeqRange(ResponseLabels)

\* the labels of a rendering, in the order they occur
LabelsOf(text) == SelectSeq(text, LAMBDA t : t \in AllLabels)

\* the text between a label and the end of its line
RECURSIVE UpToNewline(_, _)
UpToNewline(text, k) ==
    IF k > Len(text) \/ text[k] = "\n" THEN <<>>
    ELSE <<text[k]>> \o UpToNewline(text, k + 1)

ValueAfter(text, label) ==
    UpToNewline(text, (CHOOSE k \in DOMAIN text : text[k] = label) + 1)

\* the mandatory fields are rendered in the fixed order, each with its value,
\* between the begin and end markers
MandatoryRendered ==
    /\ msg.type = "request" =>
          /\ Head(out.val) = "=== AGENT REQUEST ==="
          /\ out.val[Len(out.val)] = "=== END REQUEST ==="
          /\ LabelsOf(out.val) = RequestLabels
          /\ ValueAfter(out.val, "FROM: ") = msg.from_agent
          /\ ValueAfter(out.val, "TO: ") = msg.to_agent
          /\ ValueAfter(out.val, "PRIORITY: ") = <<PriorityValue(msg.priority)>>
          /\ ValueAfter(out.val, "CONTEXT: ") = msg.context
          /\ ValueAfter(out.val, "REQUEST: ") = msg.request
          /\ ValueAfter(out.val, "DELIVERABLE: ") = msg.deliverable
          /\ ValueAfter(out.val, "TIMELINE: ") = msg.timeline
    /\ msg.type = "response" =>
          /\ Head(out.val) = "=== AGENT RESPONSE ==="
          /\ out.val[Len(out.val)] = "=== END RESPONSE ==="
          /\ SubSeq(LabelsOf(out.val), 1, 4) = SubSeq(ResponseLabels, 1, 4)
          /\ ValueAfter(out.val, "FROM: ") = msg.from_agent
          /\ ValueAfter(out.val, "TO: ") = msg.to_agent
          /\ ValueAfter(out.val, "STATUS: ") = <<StatusValue(msg.status)>>
          /\ ValueAfter(out.val, "ESTIMATED_COMPLETION: ") = msg.estimated_completion

\* the labels of the optional fields that rendered(_) says are rendered
OptionalLabels(rendered(_)) ==
    (IF rendered(msg.questions) THEN <<"QUESTIONS: ">> ELSE <<>>)
    \o (IF rendered(msg.notes) THEN <<"NOTES: ">> ELSE <<>>)

OptionalRendered(rendered(_)) ==
    msg.type = "response" =>
        /\ LabelsOf(out.val) = SubSeq(ResponseLabels, 1, 4) \o OptionalLabels(rendered)
        /\ rendered(msg.questions) => ValueAfter(out.val, "QUESTIONS: ") = msg.questions[1]
        /\ rendered(msg.notes) => ValueAfter(out.val, "NOTES: ") = msg.notes[1]

IsSet(o) == o # None

\* C10 (as claimed): to_markdown renders the fields in the fixed order between
\* the markers with every mandatory value reproduced; an optional field that
\* is absent has no line, and one that is set, to the empty string too, has
\* its line with its value.
C10_OptionalSetIsRendered ==
    out.op = "to_markdown" => (MandatoryRendered /\ OptionalRendered(IsSet))

\* C10 (amended): to_markdown renders the fields in the fixed order between
\* the markers with every mandatory value reproduced; an optional field that
\* is absent or the empty string has no line, and one that is set to a
\* non-empty string has its line with its value.
C10_OptionalNonEmptyIsRendered ==
    out.op = "to_markdown" => (MandatoryRendered /\ OptionalRendered(Truthy))

\* C10 witness: a rendered response with notes set to a non-empty string and
\* questions absent
C10_Witness ==
    /\ out.op = "to_markdown"
    /\ msg.type = "response"
    /\ msg.questions = None
    /\ msg.notes # None
    /\ msg.notes[1] # <<>>
    /\ Contains(out.val, "NOTES: ")
    /\ ~Contains(out.val, "QUESTIONS: ")

--------------------------------------------------------------------------
(* Claims about to_json, checked under SpecJson                            *)

RequestKeys ==
    <<"\"from_agent\"", "\"to_agent\"", "\"priority\"", "\"context\"", "\"request\"",
      "\"deliverable\"", "\"timeline\"", "\"created_at\"">>

ResponseKeys ==
    <<"\"from_agent\"", "\"to_agent\"", "\"status\"", "\"estimated_completion\"",
      "\"questions\"", "\"notes\"", "\"created_at\"">>

\* the keys of a JSON text, in the order they occur
KeysOf(text) ==
    SelectSeq(text, LAMBDA t : t \in SeqRange(RequestKeys) \cup SeqRange(ResponseKeys))

\* the text of the value of a key: from after ": " to the "," or line end
RECURSIVE UpToComma(_, _)
UpToComma(text, k) ==
    IF k > Len(text) \/ text[k] = "," \/ text[k] = "\n" THEN <<>>
    ELSE <<text[k]>> \o UpToComma(text, k + 1)

JsonValueOf(text, key) ==
    UpToComma(text, (CHOOSE k \in DOMAIN text : text[k] = key) + 2)

\* a JSON text with the value of "created_at" taken out
WithoutTimestamp(text) ==
    LET k == CHOOSE j \in DOMAIN text : text[j] = "\"created_at\""
        n == Len(JsonValueOf(text, "\"created_at\""))
    IN  SubSeq(text, 1, k + 1) \o SubSeq(text, k + 2 + n, Len(text))

\* the value of a str and of an absent Optional[str] in JSON
Quoted(str) == <<"\"">> \o str \o <<"\"">>

\* every field of msg is in the JSON text o.val, an absent optional one as
\* null, and "created_at" is the time of the call
JsonRendersAll(o) ==
    /\ Head(o.val) = "{"
    /\ o.val[Len(o.val)] = "}"
    /\ JsonValueOf(o.val, "\"from_agent\"") = Quoted(msg.from_agent)
    /\ JsonValueOf(o.val, "\"to_agent\"") = Quoted(msg.to_agent)
    /\ JsonValueOf(o.val, "\"created_at\"") = Quoted(IsoFormat(o.at))
    /\ msg.type = "request" =>
          /\ KeysOf(o.val) = RequestKeys
          /\ JsonValueOf(o.val, "\"priority\"") = Quoted(<<PriorityValue(msg.priority)>>)
          /\ JsonValueOf(o.val, "\"context\"") = Quoted(msg.context)
          /\ JsonValueOf(o.val, "\"request\"") = Quoted(msg.request)
          /\ JsonValueOf(o.val, "\"deliverable\"") = Quoted(msg.deliverable)
          /\ JsonValueOf(o.val, "\"timeline\"") = Quoted(msg.timeline)
    /\ msg.type = "response" =>
          /\ KeysOf(o.val) = ResponseKeys
          /\ JsonValueOf(o.val, "\"status\"") = Quoted(<<StatusValue(msg.status)>>)
          /\ JsonValueOf(o.val, "\"estimated_completion\"")
                = Quoted(msg.estimated_completion)
          /\ JsonValueOf(o.val, "\"questions\"")
                = (IF msg.questions = None THEN <<"null">> ELSE Quoted(msg.questions[1]))
          /\ JsonValueOf(o.val, "\"notes\"")
                = (IF msg.notes = None THEN <<"null">> ELSE Quoted(msg.notes[1]))

\* C11: to_json renders every field of the record, an absent optional field
\* as null, and a "created_at" that is the clock at the time of the call, not
\* at the time of construction; two to_json calls on the same record agree on
\* everything but "created_at", which is the time of each call.
C11_JsonTimestampAtCall ==
    out.op = "to_json" =>
        /\ JsonRendersAll(out)
        /\ prev_out.op = "to_json" =>
              /\ JsonRendersAll(prev_out)
              /\ WithoutTimestamp(prev_out.val) = WithoutTimestamp(out.val)
              /\ prev_out.at # out.at => prev_out.val # out.val

\* C11 witness: two to_json calls at different times on a response without
\* notes, well after its construction
C11_Witness ==
    /\ out.op = "to_json"
    /\ prev_out.op = "to_json"
    /\ msg.type = "response"
    /\ msg.notes = None
    /\ 0 < prev_out.at
    /\ prev_out.at < out.at
    /\ JsonValueOf(out.val, "\"notes\"") = <<"null">>
    /\ JsonValueOf(out.val, "\"created_at\"") # JsonValueOf(prev_out.val, "\"created_at\"")

--------------------------------------------------------------------------
(* Claims about CommunicationHandler, checked under SpecHandler            *)

\* the records of log of one type, and the positions of log whose field is id
OfType(log, type) == SelectSeq(log, LAMBDA rec : rec.type = type)

Matching(log, field, id) == {k \in DOMAIN log : log[k][field] = id}

\* val is exactly the records of log whose field is id, in the order of log
ExactlyMatching(val, log, field, id) ==
    /\ \A k \in DOMAIN val : val[k][field] = id
    /\ Len(val) = Cardinality(Matching(log, field, id))
    /\ EmbedsFrom(val, log, 1, 1)

\* C12: each log is the sequence of the records created so far of its kind,
\* in creation order, whatever calls were made (a create appends one record
\* to its own log only; queries and export change no log), and
\* get_requests_for_agent(id) / get_requests_from_agent(id) return exactly the
\* logged requests whose to_agent / from_agent is id, in append order.
C12_LogsAppendOnly ==
    /\ requests = OfType(created, "request")
    /\ response_log = OfType(created, "response")
    /\ Len(requests) + Len(response_log) = Len(created)
    /\ answer.op \in {"create_request", "create_response"} =>
          /\ created # <<>>
          /\ created[Len(created)] = answer.val
    /\ answer.op = "get_requests_for_agent" =>
          ExactlyMatching(answer.val, requests, "to_agent", answer.id)
    /\ answer.op = "get_requests_from_agent" =>
          ExactlyMatching(answer.val, requests, "from_agent", answer.id)

\* C12 witness: with three records created, two of them different requests
\* for one agent and one a response, that agent's requests are asked for
C12_Witness ==
    /\ Len(created) = 3
    /\ Len(requests) = 2
    /\ requests[1] # requests[2]
    /\ Len(response_log) = 1
    /\ answer.op = "get_requests_for_agent"
    /\ Len(answer.val) = 2
    /\ answer.val = requests

--------------------------------------------------------------------------
(* Claims about the order of the API calls, checked under SpecManager      *)

\* the call site of the loop of the operation in progress
LoopSite == IF call.op = "invoke_multiple_agents" THEN "batch" ELSE "supporting"

\* invoke_agent gets as far as client.messages.create for an agent id
Reaches(agent_id) == client /\ DictHas(agents, agent_id)

\* the invoke_agent calls of the log, up to the n-th, that got as far as
\* client.messages.create
ReachedUpTo(n) == {k \in 1..n : Reaches(attempts[k].agent_id)}

\* C13: invoke_multiple_agents and the supporting loop of collaborative_task
\* call client.messages.create one call at a time, in the order of the input
\* list and at most once per list element: the k-th invoke_agent call of the
\* loop is for the k-th element, a call that failed is reported once in the
\* map and is not made again, and a call is made only when every call before
\* it has returned or raised.
C13_OneCallPerElementInOrder ==
    call.op \in {"invoke_multiple_agents", "collaborative_task"} =>
        LET n == Cardinality(AttemptsAt(LoopSite)) IN
        /\ AttemptsAt(LoopSite) = 1..n
        /\ n <= Len(call.agents)
        /\ \A k \in 1..n :
              /\ attempts[k].agent_id = call.agents[k]
              /\ attempts[k].task = call.task
              /\ attempts[k].kind = "pending" => Reaches(call.agents[k])
        /\ \A k \in DOMAIN attempts : attempts[k].kind = "pending" => k = Len(attempts)
        /\ \A j \in DOMAIN generated : generated[j].kind = "pending" => j = Len(generated)
        /\ Cardinality(ReachedUpTo(n)) <= Len(generated)
        /\ Len(generated) = Cardinality(ReachedUpTo(Len(attempts)))
        /\ \A k \in ReachedUpTo(n) :
              LET j == Cardinality(ReachedUpTo(k)) IN
              /\ generated[j].system = SystemPrompt(DictGet(agents, call.agents[k]))
              /\ generated[j].user = call.task
              /\ generated[j].kind = attempts[k].kind
        /\ \A k \in 1..n :
              (/\ attempts[k].kind = "raise"
               /\ \A h \in (k + 1)..n : attempts[h].agent_id # call.agents[k])
              => /\ DictHas(responses, call.agents[k])
                 /\ DictGet(responses, call.agents[k]) = OutcomeString(attempts[k])

\* C13 witness: invoke_multiple_agents returned; the API call for the first
\* agent of the list had failed, the one for the second, another agent,
\* produced text
C13_Witness ==
    /\ result.op = "invoke_multiple_agents"
    /\ Len(call.agents) = 2
    /\ call.agents[1] # call.agents[2]
    /\ Len(generated) = 2
    /\ generated[1].kind = "raise"
    /\ attempts[1].exc = "APIError"
    /\ generated[2].kind = "ok"
    /\ DictGet(responses, call.agents[1]) = <<"Error: ">> \o attempts[1].val

==========================================================================
